---- MODULE Spec2Model ----
(***************************************************************************)
(* Model of the VLC event manager, src/misc/events.c.                      *)
(*                                                                         *)
(* One vlc_event_manager_t shared by a set of threads.  Every thread has a *)
(* stack of vlc_event_send frames: a listener callback invoked by send may *)
(* itself call register/attach/detach/send on the same manager.  A nested  *)
(* send pushes a frame; register, attach and detach run to their return in *)
(* one step, at the moment they get the lock.  A step of send is one       *)
(* stretch under the lock: from vlc_mutex_lock to the vlc_mutex_unlock     *)
(* before the next callback or before the return; the call of the callback *)
(* that follows the unlock is a step of its own.                           *)
(*                                                                         *)
(* Specifications: Spec, two threads; SpecReentrant, one thread whose      *)
(* callbacks send again; SpecDuplicates, one thread and one attach more;   *)
(* SpecLock, two threads with vlc_mutex_lock as a step of its own, before  *)
(* the locked stretch; SpecConcurrent, two threads sending on two          *)
(* categories, with the fairness of the steps of send.                     *)
(*                                                                         *)
(* The dynamic array macros of vlc_arrays.h are modelled as sequences:     *)
(* ARRAY_APPEND adds at the end, ARRAY_REMOVE(a, i) closes the gap.        *)
(* FOREACH_ARRAY( item, array ) ... FOREACH_END() is a loop over the array *)
(* it is given, by the index fe_idx that vlc_event_detach hands to         *)
(* ARRAY_REMOVE: `for (fe_idx = 0; fe_idx < array.i_size; fe_idx++)` with  *)
(* `item = array.p_elems[fe_idx]` at the top of every iteration.  In       *)
(* vlc_event_send the array is listeners_group->listeners itself, so every *)
(* iteration after a callback tests and reads the array as it is then.     *)
(***************************************************************************)
EXTENDS Integers, Sequences, FiniteSets

(* ---- bounds of the model ---- *)
MaxDepth == 1
MaxAttach == 2
MaxGroups == 2

Threads == {1, 2}
EventTypes == {"T", "U"}
Callbacks == {"A", "B"}
UserData == {"dA", "dB"}
\* the (callback, user data) pairs that get attached, and those detach is
\* called with: the last one has the callback of one and the data of the other
AttachArgs == {<<"A", "dA">>, <<"B", "dB">>}
DetachArgs == AttachArgs \cup {<<"A", "dB">>}
Owner == "owner"
Objects == {Owner, "stale"}

(* ---- return codes ---- *)
VLC_SUCCESS == "VLC_SUCCESS"
VLC_ENOMEM == "VLC_ENOMEM"
VLC_EGENERIC == "VLC_EGENERIC"
NoRv == "void"

VARIABLES
    p_obj,              \* p_em->p_obj, the owner stamped on outgoing events
    object_lock,        \* p_em->object_lock: 0 when free, else the owning thread
    listeners_groups,   \* p_em->listeners_groups: sequence of groups
    stack,              \* per thread: the frames of its send calls in progress
    ret,                \* what the register/attach/detach of the last step
                        \* returned and gave to msg_Err / msg_Warn
    cs,                 \* the threads between a vlc_mutex_lock and the
                        \* vlc_mutex_unlock that follows it, where a critical
                        \* section is taken in more than one step
    nattach,            \* history: number of listeners appended so far
    cleared             \* history: (type, callback, data) attached once, then
                        \* detached with success and not attached since

vars == <<p_obj, object_lock, listeners_groups, stack, ret, cs, nattach, cleared>>

(***************************************************************************)
(* Private types                                                           *)
(***************************************************************************)
\* vlc_event_listener_t; id numbers the entries in the order of their
\* ARRAY_APPEND: it is the identity of the allocated entry, not a field the
\* code compares.
vlc_event_listener_t(id, cb, data) ==
    [id |-> id, pf_callback |-> cb, p_user_data |-> data]

vlc_event_listeners_group_t(type) ==
    [event_type |-> type, listeners |-> <<>>]

Triple(type, cb, data) == <<type, cb, data>>

(***************************************************************************)
(* Array macros (vlc_arrays.h) as used by events.c                         *)
(***************************************************************************)
ARRAY_APPEND(array, elem) == Append(array, elem)

ARRAY_REMOVE(array, pos) ==
    SubSeq(array, 1, pos - 1) \o SubSeq(array, pos + 1, Len(array))

\* variant: the scan goes on after a match, the last group of the type wins
FindGroupLast(groups, type) ==
    LET hits == {g \in 1..Len(groups) : groups[g].event_type = type}
    IN IF hits = {} THEN 0 ELSE CHOOSE g \in hits : \A h \in hits : g >= h

\* First index of a group whose event_type is `type`, 0 when there is none:
\* the outer FOREACH_ARRAY of send and attach stops at the first match.
FindGroup(groups, type) ==
    LET hits == {g \in 1..Len(groups) : groups[g].event_type = type}
    IN IF hits = {} THEN 0 ELSE CHOOSE g \in hits : \A h \in hits : g <= h

Matches(listener, cb, data) ==
    listener.pf_callback = cb /\ listener.p_user_data = data

\* detach: the outer loop visits every group of the type (it has no break),
\* the inner loop returns at the first listener equal to (cb, data).
\* <<g, i>> of the entry removed, <<0, 0>> when nothing matches.
FindListener(groups, type, cb, data) ==
    LET hits == {p \in (1..Len(groups)) \X (1..MaxAttach + 1) :
                    /\ groups[p[1]].event_type = type
                    /\ p[2] <= Len(groups[p[1]].listeners)
                    /\ Matches(groups[p[1]].listeners[p[2]], cb, data)}
    IN IF hits = {} THEN <<0, 0>>
       ELSE CHOOSE p \in hits : \A q \in hits :
                p[1] < q[1] \/ (p[1] = q[1] /\ p[2] <= q[2])

(***************************************************************************)
(* Frames of vlc_event_send                                                *)
(***************************************************************************)
Frame(type, obj) ==
    [pc |-> "lock",                     \* lock: under the lock; call: lock
                                        \* released, about to call func; cb:
                                        \* inside func; ret: about to return
     type |-> type,                     \* p_event->type
     ev_obj |-> obj,                    \* p_event->p_obj
     func |-> "none", user_data |-> "none",
     grp |-> 0, fe_idx |-> 0,           \* listeners_group and fe_idx
     item |-> 0,                        \* the entry `listener` points to
     raced |-> FALSE,                   \* history: a detach of the pair copied
                                        \* succeeded between the unlock and
                                        \* the call
     \* history of the call
     snap |-> <<>>,                     \* listeners when the loop began
     invoked |-> <<>>,                  \* invocations made so far
     nmut |-> 0,                        \* mutations of the manager since,
                                        \* counted up to 2
     selfdet |-> {},                    \* ids whose callback detached itself
     gone0 |-> {c \in cleared : c[1] = type}]
                                        \* the pairs a detach had cleared when
                                        \* the call began, not attached since

Result(rv, msg) == [rv |-> rv, msg |-> msg]

Depth(t) == Len(stack[t])
Top(t) == stack[t][Depth(t)]

SetTop(stk, t, f) == [stk EXCEPT ![t][Len(stk[t])] = f]
Push(stk, t, f) == [stk EXCEPT ![t] = Append(@, f)]

InDispatch(f) == f.pc \in {"call", "cb"}
InCallback(t) == Depth(t) > 0 /\ Top(t).pc = "cb"

\* every send that is inside its dispatch loop, the lock released, sees one
\* more mutation
MarkMut(stk) ==
    [t \in Threads |->
        [i \in 1..Len(stk[t]) |->
            IF InDispatch(stk[t][i])
            THEN [stk[t][i] EXCEPT !.nmut = IF @ < 2 THEN @ + 1 ELSE @]
            ELSE stk[t][i]]]

\* an attach of the pair ends "cleared when the call began" for every send
Reattached(stk, triple) ==
    [t \in Threads |->
        [i \in 1..Len(stk[t]) |->
            [stk[t][i] EXCEPT !.gone0 = @ \ {triple}]]]

\* A thread may enter the manager from outside, or from a listener callback
\* running under one of its own send calls.
CanCall(t) == Depth(t) = 0 \/ InCallback(t)

(***************************************************************************)
(* vlc_event_manager_init                                                  *)
(***************************************************************************)
Init ==
    /\ p_obj = Owner
    /\ object_lock = 0
    /\ listeners_groups = <<>>
    /\ stack = [t \in Threads |-> <<>>]
    /\ ret = Result(NoRv, "none")
    /\ cs = {}
    /\ nattach = 0
    /\ cleared = {}

(***************************************************************************)
(* vlc_mutex_lock / vlc_mutex_unlock                                       *)
(* A critical section is one step: it begins when the lock is free and     *)
(* ends with the value the unlock that closes it leaves in the lock.       *)
(***************************************************************************)
vlc_mutex_lock(t) == object_lock = 0

\* variant: the unlock before the call is missing
LockKeptAcrossCallback(t) == t

\* variant: the unlock at the end of send is missing
LockKeptAfterSend(t) == t

\* owner of the lock while send runs func( p_event, user_data ):
\* vlc_mutex_unlock comes before the call
LockAcrossCallback(t) == 0

\* owner of the lock after the vlc_mutex_unlock that ends the critical
\* section of register, and of attach and detach on the path that returns
\* VLC_SUCCESS
LockAtExit(t) == 0

\* variant: the path that found nothing returns without its unlock
LockKeptAtError(t) == t

\* owner of the lock after the vlc_mutex_unlock of the path of attach and
\* detach that found nothing
LockAtError(t) == 0

\* owner of the lock after the vlc_mutex_unlock that ends vlc_event_send
LockAfterSend(t) == 0

(***************************************************************************)
(* vlc_event_manager_register_event_type                                   *)
(***************************************************************************)
\* variant: the new group is put at the head of the array
RegisterGroupsFront(groups, type) ==
    <<vlc_event_listeners_group_t(type)>> \o groups

RegisterGroups(groups, type) ==
    ARRAY_APPEND(groups, vlc_event_listeners_group_t(type))

\* from after vlc_mutex_lock to the return
RegisterLocked(t, type) ==
    /\ listeners_groups' = RegisterGroups(listeners_groups, type)
    /\ object_lock' = LockAtExit(t)
    /\ stack' = MarkMut(stack)
    /\ ret' = Result(VLC_SUCCESS, "none")
    /\ UNCHANGED <<p_obj, nattach, cleared>>

\* malloc returned NULL: the return comes before any lock
NoMem(t) ==
    /\ ret' = Result(VLC_ENOMEM, "none")
    /\ UNCHANGED <<p_obj, object_lock, listeners_groups, stack, nattach, cleared>>

\* `ok` is whether malloc returned memory
Register(t, type, ok) ==
    /\ CanCall(t)
    /\ Len(listeners_groups) < MaxGroups
    /\ IF ~ok THEN NoMem(t)
       ELSE vlc_mutex_lock(t) /\ RegisterLocked(t, type)
    /\ UNCHANGED cs

(***************************************************************************)
(* __vlc_event_attach                                                      *)
(***************************************************************************)
\* variant: the new listener goes to the head of the array
AttachGroupsFront(groups, type, listener) ==
    LET g == FindGroup(groups, type)
    IN IF g = 0 THEN groups
       ELSE [groups EXCEPT ![g].listeners = <<listener>> \o @]

\* variant: with no group of the type, the listener lands in the group the
\* scan visited last
AttachGroupsFallback(groups, type, listener) ==
    LET g == IF FindGroup(groups, type) = 0 THEN Len(groups)
             ELSE FindGroup(groups, type)
    IN IF g = 0 THEN groups
       ELSE [groups EXCEPT ![g].listeners = ARRAY_APPEND(@, listener)]

\* the scan of __vlc_event_attach under the lock
AttachGroups(groups, type, listener) ==
    LET g == FindGroup(groups, type)
    IN IF g = 0 THEN groups
       ELSE [groups EXCEPT ![g].listeners = ARRAY_APPEND(@, listener)]

\* from after vlc_mutex_lock to the return
AttachLocked(t, type, cb, data) ==
    /\ listeners_groups' = AttachGroups(listeners_groups, type,
            vlc_event_listener_t(nattach + 1, cb, data))
    /\ IF FindGroup(listeners_groups, type) # 0
       THEN /\ object_lock' = LockAtExit(t)
            /\ nattach' = nattach + 1
            /\ cleared' = cleared \ {Triple(type, cb, data)}
            /\ stack' = MarkMut(Reattached(stack, Triple(type, cb, data)))
            /\ ret' = Result(VLC_SUCCESS, "none")
       ELSE /\ object_lock' = LockAtError(t)
            /\ nattach' = nattach
            /\ cleared' = cleared
            /\ stack' = stack
            /\ ret' = Result(VLC_EGENERIC, "err")
    /\ UNCHANGED p_obj

\* `ok` is whether malloc returned memory
Attach(t, type, cb, data, ok) ==
    /\ CanCall(t)
    /\ nattach < MaxAttach
    /\ IF ~ok THEN NoMem(t)
       ELSE vlc_mutex_lock(t) /\ AttachLocked(t, type, cb, data)
    /\ UNCHANGED cs

(***************************************************************************)
(* vlc_event_detach                                                        *)
(***************************************************************************)
\* variant: ARRAY_REMOVE is given the last index instead of fe_idx
DetachGroupsLast(groups, type, cb, data) ==
    LET p == FindListener(groups, type, cb, data)
    IN IF p = <<0, 0>> THEN groups
       ELSE [groups EXCEPT ![p[1]].listeners = ARRAY_REMOVE(@, Len(@))]

\* variant: the inner loop goes on after a removal and takes out every equal
\* entry of the group
DetachGroupsAll(groups, type, cb, data) ==
    LET p == FindListener(groups, type, cb, data)
    IN IF p = <<0, 0>> THEN groups
       ELSE [groups EXCEPT ![p[1]].listeners =
                SelectSeq(@, LAMBDA l : ~Matches(l, cb, data))]

\* variant: the test of the inner loop compares the callback only
DetachGroupsLoose(groups, type, cb, data) ==
    LET g == FindGroup(groups, type)
        hits == IF g = 0 THEN {}
                ELSE {i \in 1..Len(groups[g].listeners) :
                        groups[g].listeners[i].pf_callback = cb}
    IN IF hits = {} THEN groups
       ELSE [groups EXCEPT ![g].listeners =
                ARRAY_REMOVE(@, CHOOSE i \in hits : \A j \in hits : i <= j)]

\* the scan of vlc_event_detach under the lock
DetachGroups(groups, type, cb, data) ==
    LET p == FindListener(groups, type, cb, data)
    IN IF p = <<0, 0>> THEN groups
       ELSE [groups EXCEPT ![p[1]].listeners = ARRAY_REMOVE(@, p[2])]

\* the send frame whose callback calls detach notes that the listener it is
\* invoking detached its own (type, callback, data)
NoteSelfDetach(stk, t, type, cb, data) ==
    IF Len(stk[t]) = 0 THEN stk
    ELSE LET c == stk[t][Len(stk[t])]
         IN IF c.type = type /\ c.func = cb /\ c.user_data = data
            THEN SetTop(stk, t,
                    [c EXCEPT !.selfdet = @ \cup {c.invoked[Len(c.invoked)].id}])
            ELSE stk

\* every send that has copied (cb, data) of the type and has not made the
\* call yet notes that the pair was detached meanwhile
NoteRace(stk, type, cb, data) ==
    [t \in Threads |->
        [i \in 1..Len(stk[t]) |->
            IF /\ stk[t][i].pc = "call" /\ stk[t][i].type = type
               /\ stk[t][i].func = cb /\ stk[t][i].user_data = data
            THEN [stk[t][i] EXCEPT !.raced = TRUE]
            ELSE stk[t][i]]]

\* the listeners of the group a send or attach of `type` resolves to
Listeners(groups, type) ==
    IF FindGroup(groups, type) = 0 THEN <<>>
    ELSE groups[FindGroup(groups, type)].listeners

CountOf(ls, cb, data) ==
    Cardinality({i \in 1..Len(ls) : Matches(ls[i], cb, data)})

\* from after vlc_mutex_lock to the return
DetachLocked(t, type, cb, data) ==
    /\ listeners_groups' = DetachGroups(listeners_groups, type, cb, data)
    /\ IF FindListener(listeners_groups, type, cb, data) # <<0, 0>>
       THEN /\ object_lock' = LockAtExit(t)
            /\ cleared' =
                IF CountOf(Listeners(listeners_groups, type), cb, data) = 1
                THEN cleared \cup {Triple(type, cb, data)}
                ELSE cleared
            /\ stack' = MarkMut(NoteRace(NoteSelfDetach(stack, t, type, cb, data),
                                         type, cb, data))
            /\ ret' = Result(VLC_SUCCESS, "none")
       ELSE /\ object_lock' = LockAtError(t)
            /\ cleared' = cleared
            /\ stack' = stack
            /\ ret' = Result(VLC_EGENERIC, "warn")
    /\ UNCHANGED <<p_obj, nattach>>

Detach(t, type, cb, data) ==
    /\ CanCall(t)
    /\ vlc_mutex_lock(t)
    /\ DetachLocked(t, type, cb, data)
    /\ UNCHANGED cs

(***************************************************************************)
(* vlc_event_send                                                          *)
(***************************************************************************)
\* variant: the event keeps what the caller left in it
StampEventKept(obj) == obj

\* p_event->p_obj = p_em->p_obj, whatever the caller left in the event
StampEvent(obj) == p_obj

NoResult == Result(NoRv, "none")

\* The body of the inner FOREACH_ARRAY up to the unlock: copy the fields of
\* the entry at fe_idx into func and user_data.
CopyListener(f) ==
    LET listener == listeners_groups[f.grp].listeners[f.fe_idx]
    IN [f EXCEPT !.pc = "call",
                 !.raced = FALSE,
                 !.item = listener.id,
                 !.func = listener.pf_callback,
                 !.user_data = listener.p_user_data]

\* the entries that are in a group: those attached and not freed by detach
LiveIds(groups) ==
    UNION {{groups[g].listeners[i].id : i \in 1..Len(groups[g].listeners)} :
            g \in 1..Len(groups)}

\* variant: the call takes the callback and the data from the entry
CallArgsFromEntry(f) ==
    [func |-> f.func, user_data |-> f.user_data, read |-> {f.item}]

\* the arguments of the call, and the entries read to get them: func and
\* user_data are the locals, no entry is read after the unlock
CallArgs(f) ==
    [func |-> f.func, user_data |-> f.user_data, read |-> {}]

\* func( p_event, user_data ), after the unlock.  The record of the
\* invocation notes whether the pair was cleared when the send began (gone),
\* whether it is cleared now (detached), whether a detach of the pair
\* succeeded since the copy (raced), whether the entry copied is freed by now
\* (freed) and whether the call read a freed entry (stale).
Invoke(f) ==
    LET args == CallArgs(f)
    IN [f EXCEPT !.pc = "cb",
                 !.invoked = Append(@,
                    [id |-> f.item,
                     func |-> args.func,
                     user_data |-> args.user_data,
                     source |-> f.ev_obj,
                     gone |-> Triple(f.type, f.func, f.user_data) \in f.gone0,
                     detached |-> Triple(f.type, f.func, f.user_data) \in cleared,
                     raced |-> f.raced,
                     freed |-> f.item \notin LiveIds(listeners_groups),
                     stale |-> ~(args.read \subseteq LiveIds(listeners_groups))])]

\* variant: the loop runs over the listeners as they were when it began
LoopHeadSnapshot(f) ==
    IF f.fe_idx <= Len(f.snap)
    THEN [f EXCEPT !.pc = "call",
                   !.raced = FALSE,
                   !.item = f.snap[f.fe_idx].id,
                   !.func = f.snap[f.fe_idx].pf_callback,
                   !.user_data = f.snap[f.fe_idx].p_user_data]
    ELSE [f EXCEPT !.pc = "ret"]

\* variant: the break sits inside the inner loop, after the first call
LoopHeadBreak(f) ==
    IF f.fe_idx = 1 /\ f.fe_idx <= Len(listeners_groups[f.grp].listeners)
    THEN CopyListener(f)
    ELSE [f EXCEPT !.pc = "ret"]

\* The head of one iteration of the inner FOREACH_ARRAY, lock held: test
\* fe_idx against the live i_size and read the live entry for the call; or
\* leave the loop and break.
\* fe_idx counts from 1 here, from 0 in the code.
LoopHead(f) ==
    IF f.fe_idx <= Len(listeners_groups[f.grp].listeners)
    THEN CopyListener(f)
    ELSE [f EXCEPT !.pc = "ret"]

\* the lock as the stretch that ends in frame f leaves it
Unlock(t, f) ==
    IF f.pc = "call" THEN LockAcrossCallback(t) ELSE LockAfterSend(t)

\* variant: the outer loop takes the first group, whatever its event_type
SendScanFirst(f) ==
    IF Len(listeners_groups) = 0 THEN [f EXCEPT !.pc = "ret"]
    ELSE LoopHead([f EXCEPT !.grp = 1, !.fe_idx = 1,
                            !.snap = listeners_groups[1].listeners])

\* the outer FOREACH_ARRAY: the first group of the type, if any, and the
\* first iteration of the inner loop
SendScan(f) ==
    LET g == FindGroup(listeners_groups, f.type)
    IN IF g = 0 THEN [f EXCEPT !.pc = "ret"]
       ELSE LoopHead([f EXCEPT !.grp = g, !.fe_idx = 1,
                               !.snap = listeners_groups[g].listeners])

\* the call: stamp the event, lock, find the group, and either copy the
\* first listener and unlock for its call, or go to the return
SendLocked(t, type, obj) ==
    /\ LET f == SendScan(Frame(type, StampEvent(obj)))
       IN /\ stack' = Push(stack, t, f)
          /\ object_lock' = Unlock(t, f)
    /\ ret' = NoResult
    /\ UNCHANGED <<p_obj, listeners_groups, nattach, cleared>>

Send(t, type, obj) ==
    /\ CanCall(t)
    /\ vlc_mutex_lock(t)
    /\ SendLocked(t, type, obj)
    /\ UNCHANGED cs

\* send, the lock released, calls the listener callback
Call(t) ==
    /\ Depth(t) > 0
    /\ Top(t).pc = "call"
    /\ stack' = SetTop(stack, t, Invoke(Top(t)))
    /\ ret' = NoResult
    /\ UNCHANGED <<p_obj, object_lock, listeners_groups, cs, nattach, cleared>>

\* the listener callback returns to send, which locks again: fe_idx++ and
\* the next iteration
\* variant: after the relock the loop does not advance fe_idx
CallbackReturnLockedAgain(t) ==
    /\ LET f == LoopHead(Top(t))
       IN /\ stack' = SetTop(stack, t, f)
          /\ object_lock' = Unlock(t, f)
    /\ ret' = NoResult
    /\ UNCHANGED <<p_obj, listeners_groups, nattach, cleared>>

CallbackReturnLocked(t) ==
    /\ LET f == LoopHead([Top(t) EXCEPT !.fe_idx = @ + 1])
       IN /\ stack' = SetTop(stack, t, f)
          /\ object_lock' = Unlock(t, f)
    /\ ret' = NoResult
    /\ UNCHANGED <<p_obj, listeners_groups, nattach, cleared>>

CallbackReturn(t) ==
    /\ InCallback(t)
    /\ vlc_mutex_lock(t)
    /\ CallbackReturnLocked(t)
    /\ UNCHANGED cs

\* vlc_event_send returns to its caller
SendReturn(t) ==
    /\ Depth(t) > 0
    /\ Top(t).pc = "ret"
    /\ stack' = [stack EXCEPT ![t] = SubSeq(@, 1, Len(@) - 1)]
    /\ ret' = NoResult
    /\ UNCHANGED <<p_obj, object_lock, listeners_groups, cs, nattach, cleared>>

\* Threads calling into one manager; a thread holds at most MaxDepth sends.
Next ==
    \/ \E t \in Threads, type \in EventTypes, ok \in BOOLEAN :
            Register(t, type, ok)
    \/ \E t \in Threads, type \in EventTypes, a \in AttachArgs, ok \in BOOLEAN :
            Attach(t, type, a[1], a[2], ok)
    \/ \E t \in Threads, type \in EventTypes, a \in DetachArgs :
            Detach(t, type, a[1], a[2])
    \/ \E t \in Threads, type \in EventTypes, obj \in Objects :
            Depth(t) < MaxDepth /\ Send(t, type, obj)
    \/ \E t \in Threads : Call(t)
    \/ \E t \in Threads : CallbackReturn(t)
    \/ \E t \in Threads : SendReturn(t)

Spec == Init /\ [][Next]_vars

\* One thread, followed one send deeper: its callbacks send again.
NextReentrant ==
    \/ \E type \in EventTypes, ok \in BOOLEAN : Register(1, type, ok)
    \/ \E type \in EventTypes, a \in AttachArgs, ok \in BOOLEAN :
            Attach(1, type, a[1], a[2], ok)
    \/ \E type \in EventTypes, a \in DetachArgs : Detach(1, type, a[1], a[2])
    \/ \E type \in EventTypes, obj \in Objects :
            Depth(1) < MaxDepth + 1 /\ Send(1, type, obj)
    \/ Call(1)
    \/ CallbackReturn(1)
    \/ SendReturn(1)

SpecReentrant == Init /\ [][NextReentrant]_vars

\* One thread and one attach more than elsewhere, so that a category can hold
\* two equal pairs and a third entry.
NextDuplicates ==
    \/ \E type \in EventTypes : Register(1, type, TRUE)
    \/ \E type \in EventTypes, a \in AttachArgs :
            /\ CanCall(1)
            /\ nattach < MaxAttach + 1
            /\ vlc_mutex_lock(1)
            /\ AttachLocked(1, type, a[1], a[2])
            /\ UNCHANGED cs
    \/ \E type \in EventTypes, a \in DetachArgs : Detach(1, type, a[1], a[2])
    \/ \E type \in EventTypes, obj \in Objects :
            Depth(1) < MaxDepth /\ Send(1, type, obj)
    \/ Call(1)
    \/ CallbackReturn(1)
    \/ SendReturn(1)

SpecDuplicates == Init /\ [][NextDuplicates]_vars

\* The critical sections in two steps.  vlc_mutex_lock returns to a thread
\* when the lock is free and makes it the owner; the thread is then between
\* the lock and the unlock of one of the operations (cs), and its next step
\* is that operation from there to its return, or to the unlock before a
\* callback.  Meanwhile the other thread takes the steps that need no lock.
Lock(t) ==
    /\ t \notin cs
    /\ CanCall(t)
    /\ vlc_mutex_lock(t)
    /\ object_lock' = t
    /\ cs' = cs \cup {t}
    /\ UNCHANGED <<p_obj, listeners_groups, stack, ret, nattach, cleared>>

NextLock ==
    \/ \E t \in Threads : Lock(t)
    \/ \E t \in cs, type \in EventTypes :
            /\ Len(listeners_groups) < MaxGroups
            /\ RegisterLocked(t, type)
            /\ cs' = cs \ {t}
    \/ \E t \in cs, type \in EventTypes, a \in AttachArgs :
            /\ nattach < MaxAttach
            /\ AttachLocked(t, type, a[1], a[2])
            /\ cs' = cs \ {t}
    \/ \E t \in cs, type \in EventTypes, a \in DetachArgs :
            /\ DetachLocked(t, type, a[1], a[2])
            /\ cs' = cs \ {t}
    \/ \E t \in cs, type \in EventTypes, obj \in Objects :
            /\ Depth(t) < MaxDepth
            /\ SendLocked(t, type, obj)
            /\ cs' = cs \ {t}
    \/ \E t \in cs :
            /\ InCallback(t)
            /\ CallbackReturnLocked(t)
            /\ cs' = cs \ {t}
    \/ \E t \in Threads \ cs :
            /\ CanCall(t)
            /\ Len(listeners_groups) < MaxGroups \/ nattach < MaxAttach
            /\ NoMem(t)
            /\ UNCHANGED cs
    \/ \E t \in Threads : Call(t)
    \/ \E t \in Threads : SendReturn(t)

SpecLock == Init /\ [][NextLock]_vars

\* Two threads sending on two categories: thread 1 sends "T", thread 2 sends
\* "U".  A thread that is not sending registers, attaches callback "A" to "T"
\* or "B" to "U", or detaches them; the callbacks only return.  The scheduler
\* runs every thread again and the mutex is free whenever no thread is inside
\* a critical section, so a step of send that stays possible is taken.
SentBy(t) == IF t = 1 THEN "T" ELSE "U"
AttachedTo(type) == IF type = "T" THEN <<"A", "dA">> ELSE <<"B", "dB">>

NextConcurrent ==
    \/ \E t \in Threads, type \in EventTypes :
            Depth(t) = 0 /\ Register(t, type, TRUE)
    \/ \E t \in Threads, type \in EventTypes :
            Depth(t) = 0
            /\ Attach(t, type, AttachedTo(type)[1], AttachedTo(type)[2], TRUE)
    \/ \E t \in Threads, type \in EventTypes :
            Depth(t) = 0
            /\ Detach(t, type, AttachedTo(type)[1], AttachedTo(type)[2])
    \/ \E t \in Threads, obj \in Objects :
            Depth(t) = 0 /\ Send(t, SentBy(t), obj)
    \/ \E t \in Threads : Call(t)
    \/ \E t \in Threads : CallbackReturn(t)
    \/ \E t \in Threads : SendReturn(t)

SpecConcurrent ==
    /\ Init
    /\ [][NextConcurrent]_vars
    /\ \A t \in Threads :
        WF_vars(Call(t)) /\ WF_vars(CallbackReturn(t)) /\ WF_vars(SendReturn(t))

(***************************************************************************)
(* Properties                                                              *)
(***************************************************************************)
SendFrames == UNION {{stack[t][i] : i \in 1..Len(stack[t])} : t \in Threads}

Done(f) == f.pc = "ret"

\* how many times the send of frame f invoked the entry `id`
TimesEntry(f, id) ==
    Cardinality({i \in 1..Len(f.invoked) : f.invoked[i].id = id})

\* how many times the send of frame f invoked cb with data
TimesPair(f, cb, data) ==
    Cardinality({i \in 1..Len(f.invoked) :
        f.invoked[i].func = cb /\ f.invoked[i].user_data = data})

Ids(ls) == [i \in 1..Len(ls) |-> ls[i].id]

\* C1: with exactly the listeners [A, B] attached to T, if A's callback
\* detaches (T, A, dataA) during its own invocation, and nothing else changes
\* the manager, the same send still invokes B exactly once.
C1_SelfDetachKeepsNext ==
    \A f \in SendFrames :
        ( /\ Done(f)
          /\ Len(f.snap) = 2
          /\ ~Matches(f.snap[2], f.snap[1].pf_callback, f.snap[1].p_user_data)
          /\ f.selfdet = {f.snap[1].id}
          /\ f.nmut = 1 )
        => TimesEntry(f, f.snap[2].id) = 1

\* C2: the entries a send has invoked when it returns are exactly the
\* entries the group held when its dispatch loop began, whatever was attached
\* or detached while the lock was dropped around the callbacks.
C2_SnapshotDispatch ==
    \A f \in SendFrames :
        (Done(f) /\ f.grp # 0) => Ids(f.invoked) = Ids(f.snap)

\* C3: when (cb, data) is attached once to a registered category and nothing
\* changes the manager during the send, the send invokes cb with data exactly
\* once, and every invocation sees event.source equal to the owner.
C3_AttachThenSend ==
    \A f \in SendFrames :
        /\ \A i \in 1..Len(f.invoked) : f.invoked[i].source = p_obj
        /\ \A a \in AttachArgs :
            (Done(f) /\ f.nmut = 0 /\ CountOf(f.snap, a[1], a[2]) = 1)
            => TimesPair(f, a[1], a[2]) = 1

C3_Witness ==
    \E f \in SendFrames : \E a \in AttachArgs :
        /\ Done(f) /\ f.nmut = 0
        /\ CountOf(f.snap, a[1], a[2]) = 1
        /\ TimesPair(f, a[1], a[2]) = 1

\* C4: a thread whose send is inside a listener callback does not own the
\* manager's lock.
C4_NoLockInCallback ==
    \A t \in Threads : \A i \in 1..Len(stack[t]) :
        stack[t][i].pc = "cb" => object_lock # t

C4_Witness ==
    \E t \in Threads : InCallback(t) /\ Top(t).func = "A"

\* C5: inside a callback every call on the same manager can take the lock
\* and run to its return: detach (of the running listener too), attach,
\* register, a nested send, and the return of the callback into send.
C5_NestedCallsProceed ==
    \A t \in Threads :
        InCallback(t) =>
            /\ ENABLED CallbackReturn(t)
            /\ \A type \in EventTypes :
                /\ \A a \in DetachArgs : ENABLED Detach(t, type, a[1], a[2])
                /\ \A obj \in Objects : ENABLED Send(t, type, obj)
                /\ nattach < MaxAttach =>
                        \A a \in AttachArgs : ENABLED Attach(t, type, a[1], a[2], TRUE)
                /\ Len(listeners_groups) < MaxGroups =>
                        ENABLED Register(t, type, TRUE)

\* a callback detached its own listener, then sent again, and the nested
\* send has come back to its return
C5_Witness ==
    /\ Depth(1) = 2
    /\ stack[1][1].selfdet # {}
    /\ Done(stack[1][2])
    /\ stack[1][2].invoked # <<>>

\* C6: within one send, entries are invoked in the order of their attach.
C6_RegistrationOrder ==
    \A f \in SendFrames : \A i, j \in 1..Len(f.invoked) :
        i < j => f.invoked[i].id < f.invoked[j].id

C6_Witness ==
    \E f \in SendFrames : Len(f.invoked) = 2 /\ f.nmut > 0

\* C7: when exactly one entry equal to (cb, data) is attached to T and
\* detach(T, cb, data) returns success, the group of T has one entry fewer and
\* none equal to (cb, data); and a send of T that begins after the detach
\* returned does not invoke cb with data, as long as it is not attached again.
C7_DetachRemovesOne ==
    [][ /\ \A t \in Threads, type \in EventTypes, a \in DetachArgs :
            ( /\ ret'.rv = VLC_SUCCESS
              /\ CountOf(Listeners(listeners_groups, type), a[1], a[2]) = 1
              /\ Detach(t, type, a[1], a[2]) )
            => /\ Len(Listeners(listeners_groups', type))
                    = Len(Listeners(listeners_groups, type)) - 1
               /\ CountOf(Listeners(listeners_groups', type), a[1], a[2]) = 0
        /\ \A f \in SendFrames : \A i \in 1..Len(f.invoked) : ~f.invoked[i].gone
      ]_vars

\* a send that began after the detach has invoked the listeners left
C7_Witness ==
    \E f \in SendFrames : f.gone0 # {} /\ Done(f) /\ f.invoked # <<>>

\* C8: when the same (cb, data) is attached twice to a category and nothing
\* changes the manager during the send, the send invokes cb with data twice.
C8_DuplicatesInvokedTwice ==
    \A f \in SendFrames : \A a \in AttachArgs :
        (Done(f) /\ f.nmut = 0 /\ CountOf(f.snap, a[1], a[2]) = 2)
        => TimesPair(f, a[1], a[2]) = 2

C8_Witness ==
    \E f \in SendFrames : \E a \in AttachArgs :
        /\ Done(f) /\ f.nmut = 0
        /\ CountOf(f.snap, a[1], a[2]) = 2
        /\ TimesPair(f, a[1], a[2]) = 2

\* C9: a send on a category that has no listener, or no group, goes straight
\* to its return: no callback invoked, nothing reported, every group as it
\* was, the lock released.
C9_SendWithoutListeners ==
    [][ \A t \in Threads, type \in EventTypes, obj \in Objects :
            ( /\ Listeners(listeners_groups, type) = <<>>
              /\ Len(stack'[t]) = Len(stack[t]) + 1
              /\ Send(t, type, obj) )
            => /\ Done(stack'[t][Len(stack'[t])])
               /\ stack'[t][Len(stack'[t])].invoked = <<>>
               /\ ret' = NoResult
               /\ listeners_groups' = listeners_groups
               /\ object_lock' = 0
      ]_vars

\* one send returning from a category without group, another from a group
\* without listeners
C9_Witness ==
    \E f, g \in SendFrames :
        /\ Done(f) /\ f.grp = 0
        /\ Done(g) /\ g.grp # 0 /\ g.snap = <<>>

\* C10: attach to a category without group returns VLC_EGENERIC after an
\* error message and leaves every group, and every dispatch in progress, as
\* it was.
C10_AttachUnknownType ==
    [][ \A t \in Threads, type \in EventTypes, a \in AttachArgs :
            ( /\ FindGroup(listeners_groups, type) = 0
              /\ Attach(t, type, a[1], a[2], TRUE) )
            => /\ ret' = Result(VLC_EGENERIC, "err")
               /\ listeners_groups' = listeners_groups
               /\ stack' = stack
      ]_vars

\* the attach has failed while another category has a listener
C10_Witness ==
    /\ ret = Result(VLC_EGENERIC, "err")
    /\ \E g \in 1..Len(listeners_groups) : listeners_groups[g].listeners # <<>>

\* C11: a detach whose (type, callback, data) equals no attached listener,
\* the category unknown or holding no equal pair, returns VLC_EGENERIC after
\* a warning and leaves the listeners of every category as they were.
NoMatch(type, cb, data) ==
    \A g \in 1..Len(listeners_groups) :
        listeners_groups[g].event_type = type
        => CountOf(listeners_groups[g].listeners, cb, data) = 0

C11_DetachNotFound ==
    [][ \A t \in Threads, type \in EventTypes, a \in DetachArgs :
            ( /\ NoMatch(type, a[1], a[2])
              /\ Detach(t, type, a[1], a[2]) )
            => /\ ret' = Result(VLC_EGENERIC, "warn")
               /\ listeners_groups' = listeners_groups
               /\ stack' = stack
      ]_vars

\* a detach has failed while the category holds the same callback with other
\* user data
C11_Witness ==
    /\ ret = Result(VLC_EGENERIC, "warn")
    /\ \E g \in 1..Len(listeners_groups) :
            /\ CountOf(listeners_groups[g].listeners, "A", "dA") > 0
            /\ CountOf(listeners_groups[g].listeners, "A", "dB") = 0

\* C12: thread 1 sending "T" and thread 2 sending "U" on one manager, each
\* send invokes only callbacks attached to its own category, and each send
\* that has begun returns.
C12_TwoSends ==
    /\ [](\A f \in SendFrames : \A i \in 1..Len(f.invoked) :
            <<f.invoked[i].func, f.invoked[i].user_data>> = AttachedTo(f.type))
    /\ \A t \in Threads : (Depth(t) > 0) ~> (Depth(t) = 0)

\* both sends are inside a callback at once, each of its own category
C12_Witness ==
    /\ InCallback(1) /\ Top(1).func = "A"
    /\ InCallback(2) /\ Top(2).func = "B"

\* C13: when a category holds several entries equal to (cb, data), a
\* successful detach removes the first of them in the order of attachment:
\* the other entries of the category stay, in the order they had, and every
\* other group is as it was.
RemoveFirst(ls, cb, data) ==
    LET first == CHOOSE i \in 1..Len(ls) :
                    /\ Matches(ls[i], cb, data)
                    /\ \A j \in 1..(i - 1) : ~Matches(ls[j], cb, data)
    IN [j \in 1..(Len(ls) - 1) |-> IF j < first THEN ls[j] ELSE ls[j + 1]]

C13_DetachFirstDuplicate ==
    [][ \A type \in EventTypes, a \in DetachArgs :
            ( /\ CountOf(Listeners(listeners_groups, type), a[1], a[2]) >= 2
              /\ Detach(1, type, a[1], a[2]) )
            => /\ ret' = Result(VLC_SUCCESS, "none")
               /\ Len(listeners_groups') = Len(listeners_groups)
               /\ \A g \in 1..Len(listeners_groups) :
                    listeners_groups'[g] =
                        IF g = FindGroup(listeners_groups, type)
                        THEN [listeners_groups[g] EXCEPT !.listeners =
                                RemoveFirst(@, a[1], a[2])]
                        ELSE listeners_groups[g]
      ]_vars

\* a send began with three entries, the first and the last equal, and a
\* detach during its dispatch has left the second and the third
C13_Witness ==
    \E f \in SendFrames :
        /\ Len(f.snap) = 3
        /\ Matches(f.snap[3], f.snap[1].pf_callback, f.snap[1].p_user_data)
        /\ ~Matches(f.snap[2], f.snap[1].pf_callback, f.snap[1].p_user_data)
        /\ Ids(Listeners(listeners_groups, f.type)) = <<f.snap[2].id, f.snap[3].id>>

\* C14: the groups are append-only: every step leaves the groups there are in
\* their places with their keys; a register that gets its memory adds one
\* empty group of its type at the end, and no other step adds a group.
C14_GroupsAppendOnly ==
    [][ /\ Len(listeners_groups') >= Len(listeners_groups)
        /\ \A g \in 1..Len(listeners_groups) :
                listeners_groups'[g].event_type = listeners_groups[g].event_type
        /\ Len(listeners_groups') # Len(listeners_groups) =>
                /\ \E type \in EventTypes :
                        listeners_groups' = listeners_groups \o
                            <<[event_type |-> type, listeners |-> <<>>]>>
                /\ \E t \in Threads, type \in EventTypes : Register(t, type, TRUE)
        /\ \A t \in Threads, type \in EventTypes :
                (ret'.rv = VLC_SUCCESS /\ Register(t, type, TRUE)) =>
                    Len(listeners_groups') = Len(listeners_groups) + 1
      ]_vars

\* a second group has been registered after listeners were attached to the
\* first, one was detached and a send has made its calls
C14_Witness ==
    /\ Len(listeners_groups) = 2
    /\ listeners_groups[1].listeners # <<>>
    /\ listeners_groups[2].listeners = <<>>
    /\ nattach = 2 /\ cleared # {}
    /\ \E f \in SendFrames : Done(f) /\ f.invoked # <<>>

\* C15: when a type is registered more than once, attach and send resolve to
\* the first group of the type: every later group of the type has no
\* listener, and the group a send dispatches has no group of its type before
\* it.
C15_FirstGroupWins ==
    /\ \A g, h \in 1..Len(listeners_groups) :
            (g < h /\ listeners_groups[g].event_type = listeners_groups[h].event_type)
            => listeners_groups[h].listeners = <<>>
    /\ \A f \in SendFrames :
            f.grp # 0 =>
                /\ listeners_groups[f.grp].event_type = f.type
                /\ \A g \in 1..(f.grp - 1) : listeners_groups[g].event_type # f.type

\* the type is registered twice, two listeners are attached and a send of
\* the type has called both
C15_Witness ==
    /\ Len(listeners_groups) = 2
    /\ listeners_groups[1].event_type = listeners_groups[2].event_type
    /\ \E f \in SendFrames :
            /\ Done(f) /\ f.type = listeners_groups[1].event_type
            /\ Len(f.snap) = 2 /\ Len(f.invoked) = 2

\* C16: a thread between the lock and the unlock of an operation owns the
\* lock, so at most one thread is there at a time; a thread that is not there
\* does not own it: every operation has released the lock when it returns,
\* on the paths that fail too; and the groups and their listeners change in
\* the steps of the owner only.
C16_LockDiscipline ==
    /\ [](/\ \A t \in cs : object_lock = t
          /\ Cardinality(cs) <= 1
          /\ \A t \in Threads : object_lock = t => t \in cs)
    /\ [][listeners_groups' # listeners_groups =>
            (object_lock \in cs /\ cs' = cs \ {object_lock})]_vars

\* thread 1, inside a callback, has taken the lock after an operation
\* failed, while thread 2 is between its unlock and the call of a listener
C16_Witness ==
    /\ cs = {1} /\ object_lock = 1
    /\ InCallback(1)
    /\ ret.rv = VLC_EGENERIC
    /\ Depth(2) > 0 /\ Top(2).pc = "call"

\* C17: send reads a listener entry only in a step in which its thread owns
\* the lock and the entry is in a group; the call that follows the unlock
\* reads no entry that has been freed, whatever was detached meanwhile.
NewTop(t) == stack'[t][Len(stack'[t])]

\* the step is one in which the send of thread t copies an entry
Copies(t) ==
    /\ Len(stack'[t]) > 0
    /\ NewTop(t).pc = "call"
    /\ Len(stack'[t]) > Len(stack[t]) \/ Top(t).pc = "cb"

C17_NoFreedEntryRead ==
    /\ [](\A f \in SendFrames : \A i \in 1..Len(f.invoked) : ~f.invoked[i].stale)
    /\ [][\A t \in Threads :
            Copies(t) => /\ object_lock = t
                         /\ NewTop(t).item \in LiveIds(listeners_groups)
          ]_vars

\* a listener has been called although its entry was freed between the
\* unlock and the call
C17_Witness ==
    \E f \in SendFrames : \E i \in 1..Len(f.invoked) : f.invoked[i].freed

\* C18: once detach(T, cb, data) has returned success and no equal entry is
\* left in T, no send invokes cb with data, a send already dispatching T on
\* another thread included.
C18_NoCallAfterDetach ==
    \A f \in SendFrames : \A i \in 1..Len(f.invoked) : ~f.invoked[i].detached

\* C18 as amended: once the detach has returned and no equal entry is left,
\* no send copies the pair from the group; cb is invoked with data after that
\* only by a send that had copied the pair and released the lock for the call
\* when the detach ran.
C18_NoCopyAfterDetach ==
    /\ [](\A f \in SendFrames : \A i \in 1..Len(f.invoked) :
            f.invoked[i].detached => f.invoked[i].raced)
    /\ [][\A t \in Threads :
            Copies(t) =>
                Triple(NewTop(t).type, NewTop(t).func, NewTop(t).user_data)
                    \notin cleared'
          ]_vars

\* a send had copied its second listener when the pair was detached; it has
\* made that call and returned
C18_Witness ==
    \E f \in SendFrames :
        /\ Done(f) /\ Len(f.invoked) = 2
        /\ f.invoked[2].detached /\ f.invoked[2].raced

\* C19: one send invokes no entry (no attach instance) more than once,
\* whatever is attached or detached by callbacks or by the other thread
\* during its dispatch.
C19_EntryInvokedOnce ==
    \A f \in SendFrames : \A id \in 1..MaxAttach : TimesEntry(f, id) <= 1

\* a send that began with one listener has called two entries that hold the
\* same callback and data: the second was attached during the dispatch
C19_Witness ==
    \E f \in SendFrames :
        /\ Done(f) /\ Len(f.snap) = 1 /\ Len(f.invoked) = 2
        /\ f.invoked[1].func = f.invoked[2].func
        /\ f.invoked[1].user_data = f.invoked[2].user_data
        /\ f.invoked[1].id # f.invoked[2].id

\* C20: every send returns, also when listeners are attached to its category
\* while it dispatches.  For that the attaches made during a dispatch must
\* not add calls to it: a send calls only entries that were attached when its
\* dispatch began.  (Where one attach during a callback adds one call, a
\* callback that attaches a listener every time it runs keeps fe_idx behind
\* i_size for ever.)
C20_DispatchNotProlonged ==
    \A f \in SendFrames : \A i \in 1..Len(f.invoked) :
        \E j \in 1..Len(f.snap) : f.snap[j].id = f.invoked[i].id

====
